---- MODULE Spec2Model ----
(***************************************************************************)
(* Order + inventory transaction subsystem of the store back office.       *)
(*                                                                         *)
(* The handlers of server/routes/orders.js, server/routes/inventory.js and *)
(* server/routes/products.js run on ONE sqlite3 connection (database.js).  *)
(* A handler is a chain of callbacks; every db.get / db.all / db.run it    *)
(* issues from a callback is handed to the connection in parallel mode, so *)
(* the statements that are pending together execute in any order, each one *)
(* atomically.  The model keeps the set of pending statements; one action  *)
(* executes one pending statement against the database and runs its        *)
(* callback (which may issue further statements and send a response).      *)
(*                                                                         *)
(* BEGIN / COMMIT / ROLLBACK act on the connection, not on a request: the  *)
(* connection is either inside a transaction or in autocommit mode.        *)
(* Columns that take no part in the stock / ledger / order logic (names,   *)
(* notes, timestamps, customer, payment method) are left out of the rows.  *)
(***************************************************************************)
EXTENDS Integers, Sequences, FiniteSets, TLC

\* ------------------------------------------------------------------ bounds
\* products present in the initial database
NumProducts == 2
\* stock_quantity of each initial product
InitStock == 2
\* largest quantity of a line item / of an adjustment
MaxQty == 2
\* largest number of line items in one order
MaxItems == 2
\* largest order id a request addresses
MaxOrderId == 2
\* requests served in one behaviour
MaxRequests == 2
\* storage failures in one behaviour of SpecFail
MaxFailures == 1
\* price of every product when it is created
ListPrice == 10
\* storage failures in one behaviour of SpecResponses
MaxRequestFailures == 2

VARIABLES
    db,         \* the tables as the connection sees them
    saved,      \* the tables as of BEGIN (what ROLLBACK restores)
    inTxn,      \* the connection is inside a transaction
    req,        \* slot -> the request being served there (its locals)
    pending,    \* statements issued and not yet executed
    nStarted,   \* requests started so far
    failuresLeft \* statements the storage may still fail

vars == <<db, saved, inTxn, req, pending, nStarted, failuresLeft>>

\* ------------------------------------------------------------------ values
Slots == 1..2

ProductIds == 1..(NumProducts + 1)

OrderIds == 1..MaxOrderId

OrderStatuses == {"pending", "processing", "shipped", "delivered", "cancelled"}

PaymentStatuses == {"pending", "paid", "failed", "refunded"}

AdjustmentTypes == {"adjustment_in", "adjustment_out"}

Abs(n) == IF n < 0 THEN -n ELSE n

\* a field the request body does not hold (undefined)
NoValue == -1

\* a line item of a create-order request body (validated: quantity >= 1) that
\* holds no unit_price (the field is optional and not validated)
ItemInputs == [product_id : ProductIds, quantity : 1..MaxQty, unit_price : {NoValue}]

ItemLists == UNION {[1..n -> ItemInputs] : n \in 1..MaxItems}

\* unit_price values submitted with a line item
UnitPrices == {0, 5}

\* line items that hold a unit_price
PricedItemInputs ==
    [product_id : 1..NumProducts, quantity : 1..MaxQty, unit_price : UnitPrices]

PricedItemLists == UNION {[1..n -> PricedItemInputs] : n \in 1..MaxItems}

\* price values submitted to PUT /products/:id (validated >= 0)
PriceInputs == {2 * ListPrice}

\* total_amount values submitted with an order
TotalAmounts == {25}

\* status values submitted to PUT /orders/:id/status
StatusInputs == {"shipped", "cancelled"}

\* payment_status values submitted to PUT /orders/:id/payment
PaymentInputs == {"paid", "refunded"}

\* quantity values submitted to POST /inventory/adjust (any integer is accepted)
AdjustInputs == {-1} \cup 1..MaxQty

\* stock_quantity values submitted with a product (validated >= 0)
StockInputs == {0, InitStock + 1}

\* a username as a profile update may hold it
UsernameInputs == {"ann", "bob"}

EmptyDb ==
    [products |-> <<>>, orders |-> <<>>, order_items |-> <<>>,
     inventory_transactions |-> <<>>, users |-> <<>>]

\* ------------------------------------------------------------------ rows
\* a products row; ids are AUTOINCREMENT and never reused, so a deleted row
\* keeps its place, marked deleted
ProductRow(sku, price, stock) ==
    [sku |-> sku, price |-> price, stock_quantity |-> stock, deleted |-> FALSE]

\* payment_status = 'pending': the default of a body that holds none
DefaultPaymentStatus == "pending"

\* an orders row as POST /orders inserts it: status takes the column default,
\* payment_status is the body's; tax_amount = 0 and discount_amount = 0 are the
\* defaults of a body that holds neither
OrderRow(total, payment_status) ==
    [status |-> "pending", payment_status |-> payment_status,
     total_amount |-> total, tax_amount |-> 0, discount_amount |-> 0]

\* total_price = unit_price * item.quantity
OrderItemRow(orderId, item, unit_price) ==
    [order_id |-> orderId, product_id |-> item.product_id,
     quantity |-> item.quantity, unit_price |-> unit_price,
     total_price |-> unit_price * item.quantity]

LedgerRow(p, type, q, refId, refType) ==
    [product_id |-> p, transaction_type |-> type, quantity |-> q,
     reference_id |-> refId, reference_type |-> refType]

InitialStockRow(p, stock) == LedgerRow(p, "initial_stock", stock, 0, "")

SaleRow(orderId, item) ==
    LedgerRow(item.product_id, "sale", -item.quantity, orderId, "order")

ReturnRow(orderId, item) ==
    LedgerRow(item.product_id, "return", item.quantity, orderId,
              "order_cancellation")

AdjustRow(p, type, q) == LedgerRow(p, type, Abs(q), 0, "")

\* ------------------------------------------------------------------ tables
HasProduct(d, p) == p \in 1..Len(d.products) /\ ~d.products[p].deleted

HasOrder(d, o) == o \in 1..Len(d.orders)

Stock(d, p) == d.products[p].stock_quantity

\* UPDATE products SET stock_quantity = <v> WHERE id = p  (no row: no change)
SetStock(d, p, v) ==
    IF HasProduct(d, p)
    THEN [d EXCEPT !.products[p].stock_quantity = v]
    ELSE d

\* (a status UPDATE without its WHERE clause)
SetOrderStatus_All(d, o, v) ==
    [d EXCEPT !.orders = [k \in DOMAIN d.orders |-> [d.orders[k] EXCEPT !.status = v]]]

\* UPDATE orders SET status = <v> WHERE id = o
SetOrderStatus(d, o, v) ==
    IF HasOrder(d, o) THEN [d EXCEPT !.orders[o].status = v] ELSE d

\* UPDATE orders SET payment_status = <v> WHERE id = o
SetPaymentStatus(d, o, v) ==
    IF HasOrder(d, o) THEN [d EXCEPT !.orders[o].payment_status = v] ELSE d

\* (a ledger write that replaces the newest row)
AppendLedger_Overwrite(d, row) ==
    [d EXCEPT !.inventory_transactions =
        IF @ = <<>> THEN <<row>> ELSE [@ EXCEPT ![Len(@)] = row]]

\* INSERT INTO inventory_transactions
AppendLedger(d, row) ==
    [d EXCEPT !.inventory_transactions = Append(@, row)]

\* SELECT product_id, quantity FROM order_items WHERE order_id = o
RECURSIVE ItemsOf(_, _)
ItemsOf(rows, o) ==
    IF rows = <<>> THEN <<>>
    ELSE LET rest == ItemsOf(Tail(rows), o) IN
         IF Head(rows).order_id = o
         THEN <<[product_id |-> Head(rows).product_id,
                 quantity |-> Head(rows).quantity]>> \o rest
         ELSE rest

\* ------------------------------------------------------------------ requests
Response(code) == [code |-> code, order_id |-> 0, total_amount |-> 0, new_stock |-> 0]

\* the locals of a handler invocation; pre is the database as the request found
\* it, closing the COMMIT / ROLLBACK it has issued and failed whether one of its
\* statements reported an error to its callback
NoReq ==
    [kind |-> "none", id |-> 0, items |-> <<>>, quantity |-> 0, value |-> "",
     total_amount |-> 0, orderId |-> 0, itemsProcessed |-> 0, hasError |-> FALSE,
     stock |-> 0, price |-> NoValue, unit_price |-> <<>>, responses |-> <<>>,
     settled |-> "", closing |-> {}, failed |-> FALSE, pre |-> EmptyDb]

Statement(r, op, i) == [slot |-> r, op |-> op, item |-> i]

Respond(rq, resp) == [rq EXCEPT !.responses = Append(@, resp)]

\* the previous request of slot r has no statement left to run
Free(r) == \A s \in pending : s.slot # r

\* no statement of any request is pending
Quiet == pending = {}

\* a request of slot r whose statements have all run
Finished(r, kind) == req[r].kind = kind /\ Free(r)

\* ------------------------------------------------------------------ connection
\* db.run('BEGIN TRANSACTION'): inside a transaction it fails and changes nothing
BeginTransaction ==
    /\ inTxn' = TRUE
    /\ saved' = IF inTxn THEN saved ELSE db

\* the request's record once its callback has issued the statements of issued
Issuing(rq, issued) ==
    [rq EXCEPT !.closing = @ \cup {t.op : t \in {u \in issued :
                                                  u.op \in {"COMMIT", "ROLLBACK"}}}]

\* the request's record as a callback called with err finds it
Called(rq, err) == [rq EXCEPT !.failed = @ \/ err]

\* a statement's callback: the request's locals change, the statement leaves the
\* pending set and the statements the callback issues join it
Callback(s, rq, issued) ==
    /\ req' = [req EXCEPT ![s.slot] = Issuing(rq, issued)]
    /\ pending' = (pending \ {s}) \cup issued

\* a data statement ran (or failed, err): the tables become d; the connection's
\* transaction state is untouched
Ran(err, d) ==
    /\ err => failuresLeft > 0
    /\ db' = (IF err THEN db ELSE d)
    /\ failuresLeft' = (IF err THEN failuresLeft - 1 ELSE failuresLeft)
    /\ UNCHANGED <<saved, inTxn, nStarted>>

\* An error that nobody handles: a statement issued without a callback fails,
\* or a callback throws (a second send on a response that is already sent).  No
\* handler listens for 'error' and the process registers no uncaughtException
\* handler, so the error either ends the process or is dropped by the driver.
\* When the process ends the open transaction is lost, the statements still
\* with the connection never run and no further request is served
ProcessExit ==
    /\ db' = (IF inTxn THEN saved ELSE db)
    /\ inTxn' = FALSE
    /\ saved' = EmptyDb
    /\ pending' = {}
    /\ nStarted' = MaxRequests + 1

\* the process has ended
Exited == nStarted > MaxRequests

\* statement s, issued without a callback, failed
Unhandled(s) ==
    /\ failuresLeft > 0
    /\ failuresLeft' = failuresLeft - 1
    /\ req' = req
    /\ \/ /\ pending' = pending \ {s}
          /\ UNCHANGED <<db, saved, inTxn, nStarted>>
       \/ ProcessExit

\* statement s failed and its callback, having issued the statements of issued
\* and left the locals rq, threw
Thrown(s, rq, issued) ==
    /\ failuresLeft > 0
    /\ failuresLeft' = failuresLeft - 1
    /\ req' = [req EXCEPT ![s.slot] = Issuing(rq, issued)]
    /\ \/ /\ pending' = (pending \ {s}) \cup issued
          /\ UNCHANGED <<db, saved, inTxn, nStarted>>
       \/ ProcessExit

\* db.run('COMMIT'), issued without a callback: outside a transaction it fails
\* and changes nothing
Commit(s) ==
    /\ s \in pending /\ s.op = "COMMIT"
    /\ \/ /\ inTxn' = FALSE
          /\ saved' = EmptyDb
          /\ pending' = pending \ {s}
          /\ UNCHANGED <<db, nStarted>>
       \/ /\ ~inTxn
          /\ ProcessExit
    /\ UNCHANGED <<req, failuresLeft>>

\* (a ROLLBACK that restores nothing)
Rollback_Ignored(s) ==
    /\ s \in pending /\ s.op = "ROLLBACK"
    /\ inTxn' = FALSE
    /\ saved' = EmptyDb
    /\ pending' = pending \ {s}
    /\ UNCHANGED <<db, req, nStarted, failuresLeft>>

\* db.run('ROLLBACK'), issued without a callback: outside a transaction it fails
\* and changes nothing
Rollback(s) ==
    /\ s \in pending /\ s.op = "ROLLBACK"
    /\ \/ /\ db' = (IF inTxn THEN saved ELSE db)
          /\ inTxn' = FALSE
          /\ saved' = EmptyDb
          /\ pending' = pending \ {s}
          /\ nStarted' = nStarted
       \/ /\ ~inTxn
          /\ ProcessExit
    /\ UNCHANGED <<req, failuresLeft>>

\* ------------------------------------------------------------------ create order
\* (a stock UPDATE that keeps the old value)
StockAfterSale_Kept(stock, quantity) == stock

\* stock_quantity = stock_quantity - ?
StockAfterSale(stock, quantity) == stock - quantity

\* (a count of processed items that never reaches the number of items)
LastItem_Never(itemsProcessed, items) == FALSE

\* itemsProcessed === items.length
LastItem(itemsProcessed, items) == itemsProcessed = Len(items)

\* the stock check of a line item
InsufficientStock(stock, quantity) == stock < quantity

\* unit_price = item.unit_price || product.price: an absent unit_price and a
\* unit_price of 0 are both falsy
UnitPrice(unit_price, price) ==
    IF unit_price = NoValue \/ unit_price = 0 THEN price ELSE unit_price

\* POST /orders: BEGIN TRANSACTION, then the INSERT of the order header; the
\* body's payment_status is not validated
CreateOrder(r, items, total, payment_status) ==
    /\ Free(r) /\ nStarted < MaxRequests
    /\ nStarted' = nStarted + 1
    /\ BeginTransaction
    /\ req' = [req EXCEPT ![r] =
                 [NoReq EXCEPT !.kind = "CreateOrder", !.items = items,
                               !.unit_price = [i \in 1..Len(items) |-> NoValue],
                               !.total_amount = total,
                               !.value = payment_status, !.pre = db]]
    /\ pending' = pending \cup {Statement(r, "InsertOrder", 0)}
    /\ UNCHANGED <<db, failuresLeft>>

\* callback of INSERT INTO orders: on success one SELECT per line item is issued
CreateOrder_InsertOrder(s, err) ==
    /\ s \in pending /\ s.op = "InsertOrder"
    /\ LET rq == Called(req[s.slot], err) IN
       /\ Ran(err, [db EXCEPT !.orders = Append(@, OrderRow(rq.total_amount, rq.value))])
       /\ IF err
          THEN Callback(s, Respond(rq, Response(500)),
                        {Statement(s.slot, "ROLLBACK", 0)})
          ELSE Callback(s, [rq EXCEPT !.orderId = Len(db.orders) + 1,
                                      !.itemsProcessed = 0, !.hasError = FALSE],
                        {Statement(s.slot, "GetProduct", i) : i \in 1..Len(rq.items)})

\* callback of SELECT price, stock_quantity FROM products: the stock check, then
\* the unit price the INSERT of the line item carries
CreateOrder_GetProduct(s, err) ==
    /\ s \in pending /\ s.op = "GetProduct"
    /\ LET rq == Called(req[s.slot], err)
           item == rq.items[s.item]
       IN
       /\ Ran(err, db)
       /\ IF err \/ ~HasProduct(db, item.product_id)
             \/ InsufficientStock(Stock(db, item.product_id), item.quantity)
          THEN IF ~rq.hasError
               THEN Callback(s, Respond([rq EXCEPT !.hasError = TRUE], Response(400)),
                             {Statement(s.slot, "ROLLBACK", s.item)})
               ELSE Callback(s, rq, {})
          ELSE Callback(s, [rq EXCEPT !.unit_price[s.item] =
                                  UnitPrice(item.unit_price,
                                            db.products[item.product_id].price)],
                        {Statement(s.slot, "InsertItem", s.item)})

\* callback of INSERT INTO order_items
CreateOrder_InsertItem(s, err) ==
    /\ s \in pending /\ s.op = "InsertItem"
    /\ LET rq == Called(req[s.slot], err)
           item == rq.items[s.item]
       IN
       /\ Ran(err, [db EXCEPT !.order_items =
                       Append(@, OrderItemRow(rq.orderId, item, rq.unit_price[s.item]))])
       /\ IF err /\ ~rq.hasError
          THEN Callback(s, Respond([rq EXCEPT !.hasError = TRUE], Response(500)),
                        {Statement(s.slot, "ROLLBACK", s.item)})
          ELSE Callback(s, rq, {Statement(s.slot, "UpdateStock", s.item)})

\* callback of UPDATE products SET stock_quantity = stock_quantity - ?: the ledger
\* INSERT is issued without a callback, the item is counted, and the last item
\* counted issues COMMIT and answers 201
CreateOrder_UpdateStock(s, err) ==
    /\ s \in pending /\ s.op = "UpdateStock"
    /\ LET rq == Called(req[s.slot], err)
           item == rq.items[s.item]
           p == item.product_id
           n == rq.itemsProcessed + 1
       IN
       /\ Ran(err, IF HasProduct(db, p)
                   THEN SetStock(db, p, StockAfterSale(Stock(db, p), item.quantity))
                   ELSE db)
       /\ IF err /\ ~rq.hasError
          THEN Callback(s, Respond([rq EXCEPT !.hasError = TRUE], Response(500)),
                        {Statement(s.slot, "ROLLBACK", s.item)})
          ELSE IF LastItem(n, rq.items) /\ ~rq.hasError
          THEN Callback(s, Respond([rq EXCEPT !.itemsProcessed = n],
                                   [Response(201) EXCEPT
                                      !.order_id = rq.orderId,
                                      !.total_amount = rq.total_amount]),
                        {Statement(s.slot, "InsertSale", s.item),
                         Statement(s.slot, "COMMIT", 0)})
          ELSE Callback(s, [rq EXCEPT !.itemsProcessed = n],
                        {Statement(s.slot, "InsertSale", s.item)})

\* INSERT INTO inventory_transactions (..., 'sale', -quantity, orderId, 'order', ...)
CreateOrder_InsertSale(s, err) ==
    /\ s \in pending /\ s.op = "InsertSale"
    /\ LET rq == req[s.slot] IN
       IF err
       THEN Unhandled(s)
       ELSE /\ Ran(FALSE, AppendLedger(db, SaleRow(rq.orderId, rq.items[s.item])))
            /\ Callback(s, rq, {})

\* ------------------------------------------------------------------ cancel order
\* (a stock UPDATE that keeps the old value)
StockAfterReturn_Kept(stock, quantity) == stock

\* stock_quantity = stock_quantity + ?
StockAfterReturn(stock, quantity) == stock + quantity

\* (a cancellation that restores nothing for an order already cancelled)
ItemsToRestore_Guarded(d, orderId) ==
    IF HasOrder(d, orderId) /\ d.orders[orderId].status = "cancelled"
    THEN <<>>
    ELSE ItemsOf(d.order_items, orderId)

\* the line items whose stock a cancellation restores
ItemsToRestore(d, orderId) == ItemsOf(d.order_items, orderId)

\* UPDATE orders SET status = 'cancelled'
CancelledStatus == "cancelled"

\* DELETE /orders/:id: BEGIN TRANSACTION, then the SELECT of the order's items
CancelOrder(r, orderId) ==
    /\ Free(r) /\ nStarted < MaxRequests
    /\ nStarted' = nStarted + 1
    /\ BeginTransaction
    /\ req' = [req EXCEPT ![r] =
                 [NoReq EXCEPT !.kind = "CancelOrder", !.id = orderId, !.pre = db]]
    /\ pending' = pending \cup {Statement(r, "SelectItems", 0)}
    /\ UNCHANGED <<db, failuresLeft>>

\* callback of SELECT product_id, quantity FROM order_items: one stock UPDATE per
\* item is issued; with no item the status UPDATE is issued at once
CancelOrder_SelectItems(s, err) ==
    /\ s \in pending /\ s.op = "SelectItems"
    /\ LET rq == Called(req[s.slot], err)
           items == ItemsToRestore(db, rq.id)
       IN
       /\ Ran(err, db)
       /\ IF err
          THEN Callback(s, Respond(rq, Response(500)),
                        {Statement(s.slot, "ROLLBACK", 0)})
          ELSE Callback(s, [rq EXCEPT !.items = items, !.itemsProcessed = 0],
                        {Statement(s.slot, "RestoreStock", i) : i \in 1..Len(items)}
                        \cup (IF Len(items) = 0
                              THEN {Statement(s.slot, "SetCancelled", 0)}
                              ELSE {}))

\* callback of UPDATE products SET stock_quantity = stock_quantity + ?: the ledger
\* INSERT is issued without a callback, the item is counted, and the last item
\* counted issues the status UPDATE.  Every failing UPDATE answers 500: the
\* second one sends on a response that is already sent, which throws
CancelOrder_RestoreStock(s, err) ==
    /\ s \in pending /\ s.op = "RestoreStock"
    /\ LET rq == Called(req[s.slot], err)
           item == rq.items[s.item]
           p == item.product_id
           n == rq.itemsProcessed + 1
       IN
       IF err /\ rq.responses # <<>>
       THEN Thrown(s, Respond(rq, Response(500)),
                   {Statement(s.slot, "ROLLBACK", s.item)})
       ELSE
       /\ Ran(err, IF HasProduct(db, p)
                   THEN SetStock(db, p, StockAfterReturn(Stock(db, p), item.quantity))
                   ELSE db)
       /\ IF err
          THEN Callback(s, Respond(rq, Response(500)),
                        {Statement(s.slot, "ROLLBACK", s.item)})
          ELSE Callback(s, [rq EXCEPT !.itemsProcessed = n],
                        {Statement(s.slot, "InsertReturn", s.item)}
                        \cup (IF LastItem(n, rq.items)
                              THEN {Statement(s.slot, "SetCancelled", 0)}
                              ELSE {}))

\* INSERT INTO inventory_transactions (..., 'return', quantity, orderId,
\* 'order_cancellation', ...)
CancelOrder_InsertReturn(s, err) ==
    /\ s \in pending /\ s.op = "InsertReturn"
    /\ LET rq == req[s.slot] IN
       IF err
       THEN Unhandled(s)
       ELSE /\ Ran(FALSE, AppendLedger(db, ReturnRow(rq.id, rq.items[s.item])))
            /\ Callback(s, rq, {})

\* callback of UPDATE orders SET status = 'cancelled': COMMIT and 200, whether or
\* not a row matched
CancelOrder_SetCancelled(s, err) ==
    /\ s \in pending /\ s.op = "SetCancelled"
    /\ LET rq == Called(req[s.slot], err) IN
       /\ Ran(err, SetOrderStatus(db, rq.id, CancelledStatus))
       /\ IF err
          THEN Callback(s, Respond(rq, Response(500)),
                        {Statement(s.slot, "ROLLBACK", 0)})
          ELSE Callback(s, Respond(rq, Response(200)),
                        {Statement(s.slot, "COMMIT", 0)})

\* ------------------------------------------------------------------ order status
\* (an UPDATE that always reports a changed row)
NoRowChanged_Never(d, o) == FALSE

\* this.changes === 0: the UPDATE matched no orders row
NoRowChanged(d, o) == ~HasOrder(d, o)

\* PUT /orders/:id/status: a status outside the five values is answered 400
\* by the validator, any other is handed to the UPDATE
UpdateOrderStatus(r, orderId, status) ==
    /\ Free(r) /\ nStarted < MaxRequests
    /\ nStarted' = nStarted + 1
    /\ LET rq == [NoReq EXCEPT !.kind = "UpdateOrderStatus", !.id = orderId,
                              !.value = status, !.pre = db]
       IN
       IF status \in OrderStatuses
       THEN /\ req' = [req EXCEPT ![r] = rq]
            /\ pending' = pending \cup {Statement(r, "SetStatus", 0)}
       ELSE /\ req' = [req EXCEPT ![r] = Respond(rq, Response(400))]
            /\ pending' = pending
    /\ UNCHANGED <<db, saved, inTxn, failuresLeft>>

\* callback of UPDATE orders SET status = ?: 404 when no row changed
UpdateOrderStatus_SetStatus(s, err) ==
    /\ s \in pending /\ s.op = "SetStatus"
    /\ LET rq == Called(req[s.slot], err) IN
       /\ Ran(err, SetOrderStatus(db, rq.id, rq.value))
       /\ Callback(s, Respond(rq, Response(IF err THEN 500
                                           ELSE IF NoRowChanged(db, rq.id) THEN 404
                                           ELSE 200)), {})

\* PUT /orders/:id/payment: a payment_status outside the four values is
\* answered 400 by the validator, any other is handed to the UPDATE
UpdatePaymentStatus(r, orderId, payment_status) ==
    /\ Free(r) /\ nStarted < MaxRequests
    /\ nStarted' = nStarted + 1
    /\ LET rq == [NoReq EXCEPT !.kind = "UpdatePaymentStatus", !.id = orderId,
                              !.value = payment_status, !.pre = db]
       IN
       IF payment_status \in PaymentStatuses
       THEN /\ req' = [req EXCEPT ![r] = rq]
            /\ pending' = pending \cup {Statement(r, "SetPayment", 0)}
       ELSE /\ req' = [req EXCEPT ![r] = Respond(rq, Response(400))]
            /\ pending' = pending
    /\ UNCHANGED <<db, saved, inTxn, failuresLeft>>

\* callback of UPDATE orders SET payment_status = ?: 404 when no row changed
UpdatePaymentStatus_SetPayment(s, err) ==
    /\ s \in pending /\ s.op = "SetPayment"
    /\ LET rq == Called(req[s.slot], err) IN
       /\ Ran(err, SetPaymentStatus(db, rq.id, rq.value))
       /\ Callback(s, Respond(rq, Response(IF err THEN 500
                                           ELSE IF NoRowChanged(db, rq.id) THEN 404
                                           ELSE 200)), {})

\* ------------------------------------------------------------------ adjust stock
\* adjustmentQuantity: +|quantity| for adjustment_in, -|quantity| for adjustment_out
AdjustmentQuantity(type, quantity) ==
    IF type = "adjustment_in" THEN Abs(quantity) ELSE -Abs(quantity)

\* (a new stock that keeps the value read)
NewStock_Kept(stock, adjustmentQuantity) == stock

\* newStock = product.stock_quantity + adjustmentQuantity
NewStock(stock, adjustmentQuantity) == stock + adjustmentQuantity

\* (an adjustment that is never refused)
NegativeStock_Never(newStock) == FALSE

\* if (newStock < 0): the adjustment is refused
NegativeStock(newStock) == newStock < 0

\* POST /inventory/adjust: BEGIN TRANSACTION, then the SELECT of the stock
AdjustStock(r, product_id, quantity, type) ==
    /\ Free(r) /\ nStarted < MaxRequests
    /\ nStarted' = nStarted + 1
    /\ BeginTransaction
    /\ req' = [req EXCEPT ![r] =
                 [NoReq EXCEPT !.kind = "AdjustStock", !.id = product_id,
                               !.quantity = quantity, !.value = type, !.pre = db]]
    /\ pending' = pending \cup {Statement(r, "GetStock", 0)}
    /\ UNCHANGED <<db, failuresLeft>>

\* callback of SELECT stock_quantity FROM products: newStock is computed from the
\* value read and checked against zero
AdjustStock_GetStock(s, err) ==
    /\ s \in pending /\ s.op = "GetStock"
    /\ LET rq == Called(req[s.slot], err)
           newStock == NewStock(Stock(db, rq.id),
                                AdjustmentQuantity(rq.value, rq.quantity))
       IN
       /\ Ran(err, db)
       /\ IF err
          THEN Callback(s, Respond(rq, Response(500)),
                        {Statement(s.slot, "ROLLBACK", 0)})
          ELSE IF ~HasProduct(db, rq.id)
          THEN Callback(s, Respond(rq, Response(404)),
                        {Statement(s.slot, "ROLLBACK", 0)})
          ELSE IF NegativeStock(newStock)
          THEN Callback(s, Respond(rq, Response(400)),
                        {Statement(s.slot, "ROLLBACK", 0)})
          ELSE Callback(s, [rq EXCEPT !.stock = newStock],
                        {Statement(s.slot, "SetNewStock", 0)})

\* callback of UPDATE products SET stock_quantity = newStock
AdjustStock_SetNewStock(s, err) ==
    /\ s \in pending /\ s.op = "SetNewStock"
    /\ LET rq == Called(req[s.slot], err) IN
       /\ Ran(err, SetStock(db, rq.id, rq.stock))
       /\ IF err
          THEN Callback(s, Respond(rq, Response(500)),
                        {Statement(s.slot, "ROLLBACK", 0)})
          ELSE Callback(s, rq, {Statement(s.slot, "InsertAdjustment", 0)})

\* callback of INSERT INTO inventory_transactions (product_id, type, |quantity|)
AdjustStock_InsertAdjustment(s, err) ==
    /\ s \in pending /\ s.op = "InsertAdjustment"
    /\ LET rq == Called(req[s.slot], err) IN
       /\ Ran(err, AppendLedger(db, AdjustRow(rq.id, rq.value, rq.quantity)))
       /\ IF err
          THEN Callback(s, Respond(rq, Response(500)),
                        {Statement(s.slot, "ROLLBACK", 0)})
          ELSE Callback(s, Respond(rq, [Response(200) EXCEPT !.new_stock = rq.stock]),
                        {Statement(s.slot, "COMMIT", 0)})

\* ------------------------------------------------------------------ products
\* SELECT id FROM products WHERE sku = ? finds a row
SkuExists(d, sku) ==
    \E p \in 1..Len(d.products) : HasProduct(d, p) /\ d.products[p].sku = sku

\* POST /products (stock_quantity validated >= 0, price ListPrice): the SKU lookup
\* comes first
CreateProduct(r, sku, stock_quantity) ==
    /\ Free(r) /\ nStarted < MaxRequests
    /\ nStarted' = nStarted + 1
    /\ req' = [req EXCEPT ![r] =
                 [NoReq EXCEPT !.kind = "CreateProduct", !.id = sku,
                               !.quantity = stock_quantity, !.pre = db]]
    /\ pending' = pending \cup {Statement(r, "FindSku", 0)}
    /\ UNCHANGED <<db, saved, inTxn, failuresLeft>>

\* callback of SELECT id FROM products WHERE sku = ?
CreateProduct_FindSku(s, err) ==
    /\ s \in pending /\ s.op = "FindSku"
    /\ LET rq == Called(req[s.slot], err) IN
       /\ Ran(err, db)
       /\ IF err
          THEN Callback(s, Respond(rq, Response(500)), {})
          ELSE IF SkuExists(db, rq.id)
          THEN Callback(s, Respond(rq, Response(400)), {})
          ELSE Callback(s, rq, {Statement(s.slot, "InsertProduct", 0)})

\* callback of INSERT INTO products (sku is UNIQUE): the initial_stock ledger
\* INSERT is issued without a callback
CreateProduct_InsertProduct(s, err) ==
    /\ s \in pending /\ s.op = "InsertProduct"
    /\ LET rq == Called(req[s.slot], err)
           taken == SkuExists(db, rq.id)
       IN
       /\ Ran(err, IF taken THEN db
                   ELSE [db EXCEPT !.products = Append(@, ProductRow(rq.id, ListPrice, rq.quantity))])
       /\ IF err \/ taken
          THEN Callback(s, Respond(rq, Response(500)), {})
          ELSE Callback(s, Respond([rq EXCEPT !.orderId = Len(db.products) + 1],
                                   Response(201)),
                        {Statement(s.slot, "InsertInitialStock", 0)})

\* INSERT INTO inventory_transactions (lastID, 'initial_stock', stock_quantity)
CreateProduct_InsertInitialStock(s, err) ==
    /\ s \in pending /\ s.op = "InsertInitialStock"
    /\ LET rq == req[s.slot] IN
       IF err
       THEN Unhandled(s)
       ELSE /\ Ran(FALSE, AppendLedger(db, InitialStockRow(rq.orderId, rq.quantity)))
            /\ Callback(s, rq, {})

\* PUT /products/:id with a stock_quantity (validated >= 0), a price (validated
\* >= 0) or both; NoValue stands for a field the body does not hold.  The
\* current stock is read first
UpdateProduct(r, productId, stock_quantity, price) ==
    /\ Free(r) /\ nStarted < MaxRequests
    /\ nStarted' = nStarted + 1
    /\ req' = [req EXCEPT ![r] =
                 [NoReq EXCEPT !.kind = "UpdateProduct", !.id = productId,
                               !.quantity = stock_quantity, !.price = price,
                               !.pre = db]]
    /\ pending' = pending \cup {Statement(r, "GetCurrent", 0)}
    /\ UNCHANGED <<db, saved, inTxn, failuresLeft>>

\* callback of SELECT stock_quantity FROM products; a body without any field is
\* answered 400
UpdateProduct_GetCurrent(s, err) ==
    /\ s \in pending /\ s.op = "GetCurrent"
    /\ LET rq == Called(req[s.slot], err) IN
       /\ Ran(err, db)
       /\ IF err
          THEN Callback(s, Respond(rq, Response(500)), {})
          ELSE IF ~HasProduct(db, rq.id)
          THEN Callback(s, Respond(rq, Response(404)), {})
          ELSE IF rq.quantity = NoValue /\ rq.price = NoValue
          THEN Callback(s, Respond(rq, Response(400)), {})
          ELSE Callback(s, [rq EXCEPT !.stock = Stock(db, rq.id)],
                        {Statement(s.slot, "UpdateRow", 0)})

\* UPDATE products SET <the fields of the body> WHERE id = p  (no row: no change)
SetFields(d, p, stock_quantity, price) ==
    IF HasProduct(d, p)
    THEN [d EXCEPT !.products[p].stock_quantity =
                       IF stock_quantity = NoValue THEN @ ELSE stock_quantity,
                   !.products[p].price = IF price = NoValue THEN @ ELSE price]
    ELSE d

\* callback of UPDATE products SET ...: when the body holds a stock_quantity that
\* differs from the value read, the difference is logged without a callback
UpdateProduct_UpdateRow(s, err) ==
    /\ s \in pending /\ s.op = "UpdateRow"
    /\ LET rq == Called(req[s.slot], err) IN
       /\ Ran(err, SetFields(db, rq.id, rq.quantity, rq.price))
       /\ IF err
          THEN Callback(s, Respond(rq, Response(500)), {})
          ELSE Callback(s, Respond(rq, Response(200)),
                        IF rq.quantity # NoValue /\ rq.quantity # rq.stock
                        THEN {Statement(s.slot, "InsertDifference", 0)}
                        ELSE {})

\* INSERT INTO inventory_transactions (productId, adjustment_in/out, |difference|)
UpdateProduct_InsertDifference(s, err) ==
    /\ s \in pending /\ s.op = "InsertDifference"
    /\ LET rq == req[s.slot]
           difference == rq.quantity - rq.stock
           transactionType == IF difference > 0 THEN "adjustment_in"
                              ELSE "adjustment_out"
       IN
       IF err
       THEN Unhandled(s)
       ELSE /\ Ran(FALSE, AppendLedger(db, AdjustRow(rq.id, transactionType, difference)))
            /\ Callback(s, rq, {})

\* SELECT COUNT(*) FROM order_items WHERE product_id = p
CountItems(d, p) ==
    Cardinality({k \in DOMAIN d.order_items : d.order_items[k].product_id = p})

\* DELETE FROM products WHERE id = p  (foreign keys are not enforced)
DeleteRow(d, p) ==
    IF HasProduct(d, p) THEN [d EXCEPT !.products[p].deleted = TRUE] ELSE d

\* DELETE /products/:id: the order_items of the product are counted first
DeleteProduct(r, productId) ==
    /\ Free(r) /\ nStarted < MaxRequests
    /\ nStarted' = nStarted + 1
    /\ req' = [req EXCEPT ![r] =
                 [NoReq EXCEPT !.kind = "DeleteProduct", !.id = productId,
                               !.pre = db]]
    /\ pending' = pending \cup {Statement(r, "CountItems", 0)}
    /\ UNCHANGED <<db, saved, inTxn, failuresLeft>>

\* callback of SELECT COUNT(*) FROM order_items: a product with order items is
\* not deleted
DeleteProduct_CountItems(s, err) ==
    /\ s \in pending /\ s.op = "CountItems"
    /\ LET rq == Called(req[s.slot], err) IN
       /\ Ran(err, db)
       /\ IF err
          THEN Callback(s, Respond(rq, Response(500)), {})
          ELSE IF CountItems(db, rq.id) > 0
          THEN Callback(s, Respond(rq, Response(400)), {})
          ELSE Callback(s, rq, {Statement(s.slot, "DeleteRow", 0)})

\* callback of DELETE FROM products: 404 when no row was deleted
DeleteProduct_DeleteRow(s, err) ==
    /\ s \in pending /\ s.op = "DeleteRow"
    /\ LET rq == Called(req[s.slot], err) IN
       /\ Ran(err, DeleteRow(db, rq.id))
       /\ Callback(s, Respond(rq, Response(IF err THEN 500
                                           ELSE IF ~HasProduct(db, rq.id) THEN 404
                                           ELSE 200)), {})

\* ------------------------------------------------------------------ aggregates
\* Object.keys(queries).length of GET /inventory/summary
SummaryQueries == 5

\* Object.keys(queries).length of GET /dashboard/overview
OverviewQueries == 8

\* the queries of an aggregate, all handed to the connection by the handler
QueriesOf(op, total) == {Statement(r, op, i) : r \in Slots, i \in 1..total}

\* GET /inventory/summary and GET /dashboard/overview: one db.get per query
Aggregate(r, kind, op, total) ==
    /\ Free(r) /\ nStarted < MaxRequests
    /\ nStarted' = nStarted + 1
    /\ req' = [req EXCEPT ![r] =
                 [NoReq EXCEPT !.kind = kind, !.itemsProcessed = 0, !.pre = db]]
    /\ pending' = pending \cup {Statement(r, op, i) : i \in 1..total}
    /\ UNCHANGED <<db, saved, inTxn, failuresLeft>>

\* callback of one query: a failure answers 500 (on a response that is already
\* sent the send throws); a result is counted, and the last one counted answers
\* with the aggregate
Aggregate_Get(s, err, total) ==
    LET rq == Called(req[s.slot], err)
        completed == rq.itemsProcessed + 1
    IN
    IF err /\ rq.responses # <<>>
    THEN Thrown(s, Respond(rq, Response(500)), {})
    ELSE /\ Ran(err, db)
         /\ IF err
            THEN Callback(s, Respond(rq, Response(500)), {})
            ELSE IF completed = total
            THEN Callback(s, Respond([rq EXCEPT !.itemsProcessed = completed],
                                     Response(200)), {})
            ELSE Callback(s, [rq EXCEPT !.itemsProcessed = completed], {})

InventorySummary(r) == Aggregate(r, "InventorySummary", "SummaryGet", SummaryQueries)

InventorySummary_Get(s, err) ==
    /\ s \in pending /\ s.op = "SummaryGet"
    /\ Aggregate_Get(s, err, SummaryQueries)

DashboardOverview(r) == Aggregate(r, "DashboardOverview", "OverviewGet", OverviewQueries)

DashboardOverview_Get(s, err) ==
    /\ s \in pending /\ s.op = "OverviewGet"
    /\ Aggregate_Get(s, err, OverviewQueries)

\* ------------------------------------------------------------------ profile
\* the user a token authenticates (req.user.id)
UserId == 1

\* UPDATE users SET username = ? WHERE id = ?
SetUsername(d, u, username) ==
    IF u \in 1..Len(d.users) THEN [d EXCEPT !.users[u].username = username] ELSE d

\* how the promise of queryWithTimeout is settled: resolve and reject act on a
\* promise that is not settled yet and are ignored afterwards
Settle(rq, how) == IF rq.settled = "" THEN [rq EXCEPT !.settled = how] ELSE rq

\* the catch block of PUT /auth/profile: 408 for a timeout, 500 otherwise
ErrorCode(how) == IF how = "timeout" THEN 408 ELSE 500

\* PUT /auth/profile: dbWithTimeout.run arms the timer and hands the UPDATE to
\* the connection
UpdateProfile(r, username) ==
    /\ Free(r) /\ nStarted < MaxRequests
    /\ nStarted' = nStarted + 1
    /\ req' = [req EXCEPT ![r] =
                 [NoReq EXCEPT !.kind = "UpdateProfile", !.id = UserId,
                               !.value = username, !.pre = db]]
    /\ pending' = pending \cup {Statement(r, "RunUpdate", 0), Statement(r, "Timer", 0)}
    /\ UNCHANGED <<db, saved, inTxn, failuresLeft>>

\* the setTimeout callback of queryWithTimeout: reject with the timeout error;
\* the statement stays with the connection.  The handler's catch answers 408
QueryWithTimeout_Timer(s) ==
    /\ s \in pending /\ s.op = "Timer"
    /\ LET rq == req[s.slot] IN
       /\ req' = [req EXCEPT ![s.slot] =
                    IF rq.settled = ""
                    THEN Respond(Settle(rq, "timeout"), Response(ErrorCode("timeout")))
                    ELSE rq]
       /\ pending' = pending \ {s}
    /\ UNCHANGED <<db, saved, inTxn, nStarted, failuresLeft>>

\* the statement's callback in queryWithTimeout: clearTimeout, then reject(err)
\* or resolve(result); the handler answers 200 after the await, 500 in its catch
QueryWithTimeout_Callback(s, err) ==
    /\ s \in pending /\ s.op = "RunUpdate"
    /\ LET rq == req[s.slot]
           how == IF err THEN "error" ELSE "result"
       IN
       /\ Ran(err, SetUsername(db, rq.id, rq.value))
       /\ req' = [req EXCEPT ![s.slot] =
                    IF rq.settled = ""
                    THEN Respond(Settle(rq, how),
                                 Response(IF err THEN ErrorCode(how) ELSE 200))
                    ELSE rq]
       /\ pending' = pending \ {s, Statement(s.slot, "Timer", 0)}

\* ------------------------------------------------------------------ read order
\* GET /orders/:id: SELECT oi.* FROM order_items oi JOIN products p ON
\* oi.product_id = p.id WHERE oi.order_id = o
RECURSIVE OrderItemsRead(_, _, _)
OrderItemsRead(d, rows, o) ==
    IF rows = <<>> THEN <<>>
    ELSE LET rest == OrderItemsRead(d, Tail(rows), o) IN
         IF Head(rows).order_id = o /\ HasProduct(d, Head(rows).product_id)
         THEN <<Head(rows)>> \o rest
         ELSE rest

\* ------------------------------------------------------------------ system
\* the database holds NumProducts products, each created with InitStock units
\* (its initial_stock ledger row written), and no order
InitDb ==
    [products |-> [p \in 1..NumProducts |-> ProductRow(p, ListPrice, InitStock)],
     orders |-> <<>>,
     order_items |-> <<>>,
     inventory_transactions |-> [p \in 1..NumProducts |-> InitialStockRow(p, InitStock)],
     users |-> <<[username |-> "admin"]>>]

\* the line items of the order the database may hold at the start: one unit of
\* each initial product
PlacedItems ==
    [p \in 1..NumProducts |-> [product_id |-> p, quantity |-> 1, unit_price |-> NoValue]]

\* InitDb after POST /orders with PlacedItems has committed: order 1 is pending,
\* each product's stock is one unit lower and each sale is in the ledger
PlacedDb ==
    [products |-> [p \in 1..NumProducts |->
                     ProductRow(p, ListPrice,
                                StockAfterSale(InitStock, PlacedItems[p].quantity))],
     orders |-> <<OrderRow(25, DefaultPaymentStatus)>>,
     order_items |-> [p \in 1..NumProducts |->
                        OrderItemRow(1, PlacedItems[p],
                                     UnitPrice(PlacedItems[p].unit_price, ListPrice))],
     inventory_transactions |->
         InitDb.inventory_transactions
         \o [p \in 1..NumProducts |-> SaleRow(1, PlacedItems[p])],
     users |-> InitDb.users]

InitWith(failures) ==
    /\ db \in {InitDb, PlacedDb}
    /\ saved = EmptyDb
    /\ inTxn = FALSE
    /\ req = [r \in Slots |-> NoReq]
    /\ pending = {}
    /\ nStarted = 0
    /\ failuresLeft = failures

\* the storage never fails a statement
Init == InitWith(0)

\* the storage fails up to MaxFailures statements
InitFail == InitWith(MaxFailures)

\* the storage fails up to MaxRequestFailures statements
InitFailMore == InitWith(MaxRequestFailures)

\* the statements a request may have pending for one of its operations
StatementsOf(op) == {Statement(r, op, i) : r \in Slots, i \in 0..MaxItems}

\* requests are served one at a time: slot 1 alone is used, so a request arrives
\* when the statements of the one before have all run
Next ==
    \/ \E items \in ItemLists, total \in TotalAmounts : CreateOrder(1, items, total, DefaultPaymentStatus)
    \/ \E o \in OrderIds : CancelOrder(1, o)
    \/ \E o \in OrderIds, v \in StatusInputs : UpdateOrderStatus(1, o, v)
    \/ \E o \in OrderIds, v \in PaymentInputs : UpdatePaymentStatus(1, o, v)
    \/ \E p \in ProductIds, q \in AdjustInputs, t \in AdjustmentTypes :
          AdjustStock(1, p, q, t)
    \/ \E sku \in ProductIds, q \in StockInputs : CreateProduct(1, sku, q)
    \/ \E p \in ProductIds, q \in StockInputs : UpdateProduct(1, p, q, NoValue)
    \/ \E p \in ProductIds : DeleteProduct(1, p)
    \/ \E s \in StatementsOf("InsertOrder"), err \in BOOLEAN : CreateOrder_InsertOrder(s, err)
    \/ \E s \in StatementsOf("GetProduct"), err \in BOOLEAN : CreateOrder_GetProduct(s, err)
    \/ \E s \in StatementsOf("InsertItem"), err \in BOOLEAN : CreateOrder_InsertItem(s, err)
    \/ \E s \in StatementsOf("UpdateStock"), err \in BOOLEAN : CreateOrder_UpdateStock(s, err)
    \/ \E s \in StatementsOf("InsertSale"), err \in BOOLEAN : CreateOrder_InsertSale(s, err)
    \/ \E s \in StatementsOf("SelectItems"), err \in BOOLEAN : CancelOrder_SelectItems(s, err)
    \/ \E s \in StatementsOf("RestoreStock"), err \in BOOLEAN : CancelOrder_RestoreStock(s, err)
    \/ \E s \in StatementsOf("InsertReturn"), err \in BOOLEAN : CancelOrder_InsertReturn(s, err)
    \/ \E s \in StatementsOf("SetCancelled"), err \in BOOLEAN : CancelOrder_SetCancelled(s, err)
    \/ \E s \in StatementsOf("SetStatus"), err \in BOOLEAN : UpdateOrderStatus_SetStatus(s, err)
    \/ \E s \in StatementsOf("SetPayment"), err \in BOOLEAN : UpdatePaymentStatus_SetPayment(s, err)
    \/ \E s \in StatementsOf("GetStock"), err \in BOOLEAN : AdjustStock_GetStock(s, err)
    \/ \E s \in StatementsOf("SetNewStock"), err \in BOOLEAN : AdjustStock_SetNewStock(s, err)
    \/ \E s \in StatementsOf("InsertAdjustment"), err \in BOOLEAN : AdjustStock_InsertAdjustment(s, err)
    \/ \E s \in StatementsOf("FindSku"), err \in BOOLEAN : CreateProduct_FindSku(s, err)
    \/ \E s \in StatementsOf("InsertProduct"), err \in BOOLEAN : CreateProduct_InsertProduct(s, err)
    \/ \E s \in StatementsOf("InsertInitialStock"), err \in BOOLEAN : CreateProduct_InsertInitialStock(s, err)
    \/ \E s \in StatementsOf("GetCurrent"), err \in BOOLEAN : UpdateProduct_GetCurrent(s, err)
    \/ \E s \in StatementsOf("UpdateRow"), err \in BOOLEAN : UpdateProduct_UpdateRow(s, err)
    \/ \E s \in StatementsOf("InsertDifference"), err \in BOOLEAN : UpdateProduct_InsertDifference(s, err)
    \/ \E s \in StatementsOf("CountItems"), err \in BOOLEAN : DeleteProduct_CountItems(s, err)
    \/ \E s \in StatementsOf("DeleteRow"), err \in BOOLEAN : DeleteProduct_DeleteRow(s, err)
    \/ \E s \in StatementsOf("COMMIT") : Commit(s)
    \/ \E s \in StatementsOf("ROLLBACK") : Rollback(s)

Spec == Init /\ [][Next]_vars

SpecFail == InitFail /\ [][Next]_vars

\* orders whose line items hold a unit_price, and price edits between them:
\* slot 1 creates orders, slot 2 edits prices, one request at a time
NextPrice ==
    \/ \E items \in PricedItemLists, total \in TotalAmounts :
          Quiet /\ CreateOrder(1, items, total, DefaultPaymentStatus)
    \/ \E p \in ProductIds, price \in PriceInputs :
          Quiet /\ UpdateProduct(2, p, NoValue, price)
    \/ \E s \in StatementsOf("InsertOrder") : CreateOrder_InsertOrder(s, FALSE)
    \/ \E s \in StatementsOf("GetProduct") : CreateOrder_GetProduct(s, FALSE)
    \/ \E s \in StatementsOf("InsertItem") : CreateOrder_InsertItem(s, FALSE)
    \/ \E s \in StatementsOf("UpdateStock") : CreateOrder_UpdateStock(s, FALSE)
    \/ \E s \in StatementsOf("InsertSale") : CreateOrder_InsertSale(s, FALSE)
    \/ \E s \in StatementsOf("GetCurrent") : UpdateProduct_GetCurrent(s, FALSE)
    \/ \E s \in StatementsOf("UpdateRow") : UpdateProduct_UpdateRow(s, FALSE)
    \/ \E s \in StatementsOf("COMMIT") : Commit(s)
    \/ \E s \in StatementsOf("ROLLBACK") : Rollback(s)

SpecPrice == Init /\ [][NextPrice]_vars

\* orders and product deletions in flight together on the one connection:
\* slot 1 creates orders, slot 2 deletes products, and a request may arrive
\* while the statements of the other slot are pending
NextDelete ==
    \/ \E items \in ItemLists, total \in TotalAmounts : CreateOrder(1, items, total, DefaultPaymentStatus)
    \/ \E p \in ProductIds : DeleteProduct(2, p)
    \/ \E s \in StatementsOf("InsertOrder") : CreateOrder_InsertOrder(s, FALSE)
    \/ \E s \in StatementsOf("GetProduct") : CreateOrder_GetProduct(s, FALSE)
    \/ \E s \in StatementsOf("InsertItem") : CreateOrder_InsertItem(s, FALSE)
    \/ \E s \in StatementsOf("UpdateStock") : CreateOrder_UpdateStock(s, FALSE)
    \/ \E s \in StatementsOf("InsertSale") : CreateOrder_InsertSale(s, FALSE)
    \/ \E s \in StatementsOf("CountItems") : DeleteProduct_CountItems(s, FALSE)
    \/ \E s \in StatementsOf("DeleteRow") : DeleteProduct_DeleteRow(s, FALSE)
    \/ \E s \in StatementsOf("COMMIT") : Commit(s)
    \/ \E s \in StatementsOf("ROLLBACK") : Rollback(s)

SpecDelete == Init /\ [][NextDelete]_vars

\* a status or payment status as a request body may hold it: values of the
\* enumeration and one outside it
StatusBodies == {"shipped", "archived"}

PaymentBodies == {"paid", "archived"}

\* the line items of the orders of NextInput
InputItemLists == {<<i>> : i \in ItemInputs}

\* requests whose body holds any status / payment_status, served one at a time
NextInput ==
    \/ \E items \in InputItemLists, total \in TotalAmounts,
          v \in PaymentBodies \cup {DefaultPaymentStatus} :
          CreateOrder(1, items, total, v)
    \/ \E o \in OrderIds, v \in StatusBodies : UpdateOrderStatus(1, o, v)
    \/ \E o \in OrderIds, v \in PaymentBodies : UpdatePaymentStatus(1, o, v)
    \/ \E s \in StatementsOf("InsertOrder") : CreateOrder_InsertOrder(s, FALSE)
    \/ \E s \in StatementsOf("GetProduct") : CreateOrder_GetProduct(s, FALSE)
    \/ \E s \in StatementsOf("InsertItem") : CreateOrder_InsertItem(s, FALSE)
    \/ \E s \in StatementsOf("UpdateStock") : CreateOrder_UpdateStock(s, FALSE)
    \/ \E s \in StatementsOf("InsertSale") : CreateOrder_InsertSale(s, FALSE)
    \/ \E s \in StatementsOf("SetStatus") : UpdateOrderStatus_SetStatus(s, FALSE)
    \/ \E s \in StatementsOf("SetPayment") : UpdatePaymentStatus_SetPayment(s, FALSE)
    \/ \E s \in StatementsOf("COMMIT") : Commit(s)
    \/ \E s \in StatementsOf("ROLLBACK") : Rollback(s)

SpecInput == Init /\ [][NextInput]_vars

\* orders, stock adjustments and profile updates with a storage that may be slow
\* or fail: the timer of a call may fire before the call completes
NextTimeout ==
    \/ \E items \in InputItemLists, total \in TotalAmounts :
          CreateOrder(1, items, total, DefaultPaymentStatus)
    \/ \E p \in ProductIds, q \in AdjustInputs, t \in AdjustmentTypes :
          AdjustStock(1, p, q, t)
    \/ \E username \in UsernameInputs : UpdateProfile(1, username)
    \/ \E s \in StatementsOf("Timer") : QueryWithTimeout_Timer(s)
    \/ \E s \in StatementsOf("RunUpdate"), err \in BOOLEAN : QueryWithTimeout_Callback(s, err)
    \/ \E s \in StatementsOf("InsertOrder") : CreateOrder_InsertOrder(s, FALSE)
    \/ \E s \in StatementsOf("GetProduct") : CreateOrder_GetProduct(s, FALSE)
    \/ \E s \in StatementsOf("InsertItem") : CreateOrder_InsertItem(s, FALSE)
    \/ \E s \in StatementsOf("UpdateStock") : CreateOrder_UpdateStock(s, FALSE)
    \/ \E s \in StatementsOf("InsertSale") : CreateOrder_InsertSale(s, FALSE)
    \/ \E s \in StatementsOf("GetStock") : AdjustStock_GetStock(s, FALSE)
    \/ \E s \in StatementsOf("SetNewStock") : AdjustStock_SetNewStock(s, FALSE)
    \/ \E s \in StatementsOf("InsertAdjustment") : AdjustStock_InsertAdjustment(s, FALSE)
    \/ \E s \in StatementsOf("COMMIT") : Commit(s)
    \/ \E s \in StatementsOf("ROLLBACK") : Rollback(s)

SpecTimeout == InitFail /\ [][NextTimeout]_vars

\* orders, cancellations and aggregates with a storage that may fail two
\* statements of a request, served one at a time
NextResponses ==
    \/ \E items \in {PlacedItems}, total \in TotalAmounts :
          CreateOrder(1, items, total, DefaultPaymentStatus)
    \/ \E o \in OrderIds : CancelOrder(1, o)
    \/ InventorySummary(1)
    \/ DashboardOverview(1)
    \/ \E s \in StatementsOf("InsertOrder"), err \in BOOLEAN : CreateOrder_InsertOrder(s, err)
    \/ \E s \in StatementsOf("GetProduct"), err \in BOOLEAN : CreateOrder_GetProduct(s, err)
    \/ \E s \in StatementsOf("InsertItem"), err \in BOOLEAN : CreateOrder_InsertItem(s, err)
    \/ \E s \in StatementsOf("UpdateStock"), err \in BOOLEAN : CreateOrder_UpdateStock(s, err)
    \/ \E s \in StatementsOf("InsertSale"), err \in BOOLEAN : CreateOrder_InsertSale(s, err)
    \/ \E s \in StatementsOf("SelectItems"), err \in BOOLEAN : CancelOrder_SelectItems(s, err)
    \/ \E s \in StatementsOf("RestoreStock"), err \in BOOLEAN : CancelOrder_RestoreStock(s, err)
    \/ \E s \in StatementsOf("InsertReturn"), err \in BOOLEAN : CancelOrder_InsertReturn(s, err)
    \/ \E s \in StatementsOf("SetCancelled"), err \in BOOLEAN : CancelOrder_SetCancelled(s, err)
    \/ \E s \in QueriesOf("SummaryGet", SummaryQueries), err \in BOOLEAN :
          InventorySummary_Get(s, err)
    \/ \E s \in QueriesOf("OverviewGet", OverviewQueries), err \in BOOLEAN :
          DashboardOverview_Get(s, err)
    \/ \E s \in StatementsOf("COMMIT") : Commit(s)
    \/ \E s \in StatementsOf("ROLLBACK") : Rollback(s)

SpecResponses == InitFailMore /\ [][NextResponses]_vars

\* the connection runs a statement of an order or adjustment transaction and
\* calls its callback
RunStatement ==
    \/ \E s \in StatementsOf("InsertOrder"), err \in BOOLEAN : CreateOrder_InsertOrder(s, err)
    \/ \E s \in StatementsOf("GetProduct"), err \in BOOLEAN : CreateOrder_GetProduct(s, err)
    \/ \E s \in StatementsOf("InsertItem"), err \in BOOLEAN : CreateOrder_InsertItem(s, err)
    \/ \E s \in StatementsOf("UpdateStock"), err \in BOOLEAN : CreateOrder_UpdateStock(s, err)
    \/ \E s \in StatementsOf("InsertSale"), err \in BOOLEAN : CreateOrder_InsertSale(s, err)
    \/ \E s \in StatementsOf("SelectItems"), err \in BOOLEAN : CancelOrder_SelectItems(s, err)
    \/ \E s \in StatementsOf("RestoreStock"), err \in BOOLEAN : CancelOrder_RestoreStock(s, err)
    \/ \E s \in StatementsOf("InsertReturn"), err \in BOOLEAN : CancelOrder_InsertReturn(s, err)
    \/ \E s \in StatementsOf("SetCancelled"), err \in BOOLEAN : CancelOrder_SetCancelled(s, err)
    \/ \E s \in StatementsOf("GetStock"), err \in BOOLEAN : AdjustStock_GetStock(s, err)
    \/ \E s \in StatementsOf("SetNewStock"), err \in BOOLEAN : AdjustStock_SetNewStock(s, err)
    \/ \E s \in StatementsOf("InsertAdjustment"), err \in BOOLEAN : AdjustStock_InsertAdjustment(s, err)
    \/ \E s \in StatementsOf("COMMIT") : Commit(s)
    \/ \E s \in StatementsOf("ROLLBACK") : Rollback(s)

\* orders, cancellations and adjustments served one at a time by a storage that
\* may fail a statement
NextLive ==
    \/ \E items \in InputItemLists \cup {PlacedItems}, total \in TotalAmounts :
          CreateOrder(1, items, total, DefaultPaymentStatus)
    \/ \E o \in OrderIds : CancelOrder(1, o)
    \/ \E p \in ProductIds, q \in AdjustInputs, t \in AdjustmentTypes :
          AdjustStock(1, p, q, t)
    \/ RunStatement

\* the connection runs every statement handed to it and calls every callback:
\* while a statement is pending, one is eventually run
SpecLive == InitFail /\ [][NextLive]_vars /\ WF_vars(RunStatement)

\* ------------------------------------------------------------------ shared connection
\* the statement a handler issues inside db.serialize(...) after BEGIN TRANSACTION
FirstStatement(kind) ==
    CASE kind = "CreateOrder" -> "InsertOrder"
      [] kind = "CancelOrder" -> "SelectItems"
      [] OTHER -> "GetStock"

\* the statements issued inside db.serialize(...) with a callback
SerializedStatements == {"InsertOrder", "SelectItems", "GetStock"}

\* a statement issued inside db.serialize(...) is running or is the next to run:
\* the connection starts nothing else until its callback has returned, and
\* queues what is issued meanwhile
Locked == \E s \in pending : s.op \in SerializedStatements

\* a BEGIN that was queued while the connection was locked: it is ahead of
\* every statement issued after it
BeginAhead == \E s \in pending : s.op = "BEGIN" /\ s.item = 1

\* the connection may start a statement that was issued outside db.serialize(...)
Parallel == ~Locked /\ ~BeginAhead

\* db.serialize(() => { db.run('BEGIN TRANSACTION'); ... }) called while
\* statements of another request are with the connection: BEGIN and the
\* statement after it are queued.  A BEGIN queued while the connection is locked
\* (item 1) runs as soon as the lock is released; any other waits until the
\* connection has nothing left to run, since statements issued by callbacks
\* outside db.serialize(...) start at once
Serialize(r, rq) ==
    /\ Free(r) /\ ~Quiet /\ nStarted < MaxRequests
    /\ nStarted' = nStarted + 1
    /\ req' = [req EXCEPT ![r] = rq]
    /\ pending' = pending \cup {Statement(r, "BEGIN", IF Locked THEN 1 ELSE 0)}
    /\ UNCHANGED <<db, saved, inTxn, failuresLeft>>

\* POST /orders while another request is in flight
CreateOrder_Serialize(r, items, total) ==
    Serialize(r, [NoReq EXCEPT !.kind = "CreateOrder", !.items = items,
                               !.unit_price = [i \in 1..Len(items) |-> NoValue],
                               !.total_amount = total,
                               !.value = DefaultPaymentStatus])

\* POST /inventory/adjust while another request is in flight
AdjustStock_Serialize(r, product_id, quantity, type) ==
    Serialize(r, [NoReq EXCEPT !.kind = "AdjustStock", !.id = product_id,
                               !.quantity = quantity, !.value = type])

\* a queued BEGIN TRANSACTION runs, and the statement queued after it is the
\* next to run.  Inside the transaction of another request BEGIN fails; it was
\* issued without a callback, so the error is unhandled
Begin(s) ==
    /\ s \in pending /\ s.op = "BEGIN"
    /\ ~Locked
    /\ s.item = 0 => pending = {s}
    /\ \/ /\ BeginTransaction
          /\ pending' = (pending \ {s})
                         \cup {Statement(s.slot, FirstStatement(req[s.slot].kind), 0)}
          /\ req' = [req EXCEPT ![s.slot].pre = db]
          /\ UNCHANGED <<db, nStarted>>
       \/ /\ inTxn
          /\ ProcessExit
          /\ req' = req
    /\ UNCHANGED failuresLeft

\* two requests in flight together on the one connection, with a storage that
\* fails no statement: slot 1 holds an order or an adjustment that arrives at a
\* connection with nothing to run; slot 2 holds an order, an adjustment or a
\* status update that arrives while statements of slot 1 are with the connection
NextShared ==
    \/ \E items \in InputItemLists, total \in TotalAmounts :
          Quiet /\ CreateOrder(1, items, total, DefaultPaymentStatus)
    \/ \E p \in ProductIds, q \in AdjustInputs, t \in AdjustmentTypes :
          Quiet /\ AdjustStock(1, p, q, t)
    \/ \E items \in InputItemLists, total \in TotalAmounts :
          CreateOrder_Serialize(2, items, total)
    \/ \E p \in ProductIds, q \in AdjustInputs, t \in AdjustmentTypes :
          AdjustStock_Serialize(2, p, q, t)
    \/ \E o \in OrderIds, v \in StatusInputs : ~Quiet /\ UpdateOrderStatus(2, o, v)
    \/ \E s \in StatementsOf("BEGIN") : Begin(s)
    \/ \E s \in StatementsOf("InsertOrder") : CreateOrder_InsertOrder(s, FALSE)
    \/ \E s \in StatementsOf("GetStock") : AdjustStock_GetStock(s, FALSE)
    \/ \E s \in StatementsOf("GetProduct") : Parallel /\ CreateOrder_GetProduct(s, FALSE)
    \/ \E s \in StatementsOf("InsertItem") : Parallel /\ CreateOrder_InsertItem(s, FALSE)
    \/ \E s \in StatementsOf("UpdateStock") : Parallel /\ CreateOrder_UpdateStock(s, FALSE)
    \/ \E s \in StatementsOf("InsertSale") : Parallel /\ CreateOrder_InsertSale(s, FALSE)
    \/ \E s \in StatementsOf("SetNewStock") : Parallel /\ AdjustStock_SetNewStock(s, FALSE)
    \/ \E s \in StatementsOf("InsertAdjustment") :
          Parallel /\ AdjustStock_InsertAdjustment(s, FALSE)
    \/ \E s \in StatementsOf("SetStatus") : Parallel /\ UpdateOrderStatus_SetStatus(s, FALSE)
    \/ \E s \in StatementsOf("COMMIT") : Parallel /\ Commit(s)
    \/ \E s \in StatementsOf("ROLLBACK") : Parallel /\ Rollback(s)

SpecShared == Init /\ [][NextShared]_vars

\* ------------------------------------------------------------------ properties
\* the signed quantity a ledger row stands for
Signed(row) ==
    IF row.transaction_type \in {"sale", "adjustment_out"}
    THEN -Abs(row.quantity)
    ELSE Abs(row.quantity)

\* the signed sum of the ledger rows of product p (its initial_stock row included)
RECURSIVE LedgerSum(_, _)
LedgerSum(rows, p) ==
    IF rows = <<>> THEN 0
    ELSE (IF Head(rows).product_id = p THEN Signed(Head(rows)) ELSE 0)
         + LedgerSum(Tail(rows), p)

\* the quantity the line items ask of product p
RECURSIVE Requested(_, _)
Requested(items, p) ==
    IF items = <<>> THEN 0
    ELSE (IF Head(items).product_id = p THEN Head(items).quantity ELSE 0)
         + Requested(Tail(items), p)

\* the rows a table gained since the request arrived
Gained(now, before) == SubSeq(now, Len(before) + 1, Len(now))

\* the table kept the rows it had when the request arrived
Kept(now, before) ==
    Len(now) >= Len(before) /\ SubSeq(now, 1, Len(before)) = before

Count(rows, x) == Cardinality({k \in DOMAIN rows : rows[k] = x})

\* the same rows, in any order
SameRows(a, b) ==
    /\ Len(a) = Len(b)
    /\ \A k \in DOMAIN a : Count(a, a[k]) = Count(b, a[k])

Codes(rq) == {rq.responses[k].code : k \in DOMAIN rq.responses}

\* the order, product and quantity of each order_items row
Lines(rows) ==
    [k \in DOMAIN rows |->
       [order_id |-> rows[k].order_id, product_id |-> rows[k].product_id,
        quantity |-> rows[k].quantity]]

DistinctProducts(items) ==
    \A i, j \in DOMAIN items : i # j => items[i].product_id # items[j].product_id

\* every line item names an existing product that holds the quantity asked
Sufficient(d, items) ==
    \A i \in DOMAIN items :
       /\ HasProduct(d, items[i].product_id)
       /\ items[i].quantity <= Stock(d, items[i].product_id)

\* C1: when no request is in flight, every product's stock_quantity equals the
\* signed sum of its ledger rows (initial_stock, return and adjustment_in
\* positive, sale and adjustment_out negative)
C1_StockReconciled ==
    Quiet => \A p \in 1..Len(db.products) :
                HasProduct(db, p) =>
                   Stock(db, p) = LedgerSum(db.inventory_transactions, p)

\* C2: once the requests have run, no product's stock_quantity is negative (a
\* request that would drive it below zero was rejected as a whole)
C2_StockNeverNegative ==
    Quiet => \A p \in 1..Len(db.products) :
                HasProduct(db, p) => Stock(db, p) >= 0

\* C3: a create-order request whose line items together ask for more of a
\* product than its stock holds leaves that product's stock, the number of
\* orders and the number of order_items unchanged
C3_OversoldOrderChangesNothing ==
    \A r \in Slots :
       Finished(r, "CreateOrder") =>
          \A p \in 1..Len(req[r].pre.products) :
             Requested(req[r].items, p) > Stock(req[r].pre, p) =>
                /\ Stock(db, p) = Stock(req[r].pre, p)
                /\ Len(db.orders) = Len(req[r].pre.orders)
                /\ Len(db.order_items) = Len(req[r].pre.order_items)

\* C4: a create-order request that answers with a failure has left no order row,
\* no order_items row, no stock decrement and no ledger row behind
C4_CreateOrderAllOrNothing ==
    \A r \in Slots :
       (Finished(r, "CreateOrder") /\ Codes(req[r]) # {201}) => db = req[r].pre

\* C5: a create-order request with N line items on distinct products that hold
\* the quantities asked answers 201 once, with the submitted total_amount; it
\* lowers each product's stock by the quantity ordered and adds one order row,
\* N order_items rows and N 'sale' ledger rows (quantity minus the quantity
\* ordered, referencing the order)
C5_CreateOrderApplied ==
    \A r \in Slots :
       LET rq == req[r]
           pre == rq.pre
           id == Len(pre.orders) + 1
           N == Len(rq.items)
       IN
       (/\ Finished(r, "CreateOrder")
        /\ DistinctProducts(rq.items)
        /\ Sufficient(pre, rq.items)) =>
          /\ rq.responses =
                <<[code |-> 201, order_id |-> id,
                   total_amount |-> rq.total_amount, new_stock |-> 0]>>
          /\ Len(db.products) = Len(pre.products)
          /\ \A p \in 1..Len(pre.products) :
                Stock(db, p) = Stock(pre, p) - Requested(rq.items, p)
          /\ Len(db.orders) = Len(pre.orders) + 1
          /\ Kept(db.orders, pre.orders)
          /\ db.orders[id].total_amount = rq.total_amount
          /\ Kept(db.order_items, pre.order_items)
          /\ SameRows(Lines(Gained(db.order_items, pre.order_items)),
                      [i \in 1..N |->
                         [order_id |-> id, product_id |-> rq.items[i].product_id,
                          quantity |-> rq.items[i].quantity]])
          /\ Kept(db.inventory_transactions, pre.inventory_transactions)
          /\ SameRows(Gained(db.inventory_transactions, pre.inventory_transactions),
                      [i \in 1..N |->
                         [product_id |-> rq.items[i].product_id,
                          transaction_type |-> "sale",
                          quantity |-> -rq.items[i].quantity,
                          reference_id |-> id, reference_type |-> "order"]])

\* a two-item order on distinct products with enough stock has been answered 201
C5_Witness ==
    /\ Finished(1, "CreateOrder")
    /\ Len(req[1].items) = 2
    /\ DistinctProducts(req[1].items)
    /\ Sufficient(req[1].pre, req[1].items)
    /\ 201 \in Codes(req[1])

\* what a cancellation of order rq.id must have done to the database it found
Cancelled(rq) ==
    LET pre == rq.pre
        items == ItemsOf(pre.order_items, rq.id)
    IN
    /\ rq.responses = <<Response(200)>>
    /\ Len(db.products) = Len(pre.products)
    /\ \A p \in 1..Len(pre.products) :
          Stock(db, p) = Stock(pre, p) + Requested(items, p)
    /\ db.orders = [pre.orders EXCEPT ![rq.id].status = "cancelled"]
    /\ db.order_items = pre.order_items
    /\ Kept(db.inventory_transactions, pre.inventory_transactions)
    /\ SameRows(Gained(db.inventory_transactions, pre.inventory_transactions),
                [i \in 1..Len(items) |->
                   [product_id |-> items[i].product_id,
                    transaction_type |-> "return",
                    quantity |-> items[i].quantity,
                    reference_id |-> rq.id,
                    reference_type |-> "order_cancellation"]])
    /\ items = <<>> => db = [pre EXCEPT !.orders[rq.id].status = "cancelled"]

\* C6: cancelling an existing order raises each line item's product stock by the
\* line's quantity, appends one 'return' ledger row with that quantity per line
\* item and sets the status to 'cancelled'; with no line item only the status
\* changes
C6_CancelOrderRestores ==
    \A r \in Slots :
       (Finished(r, "CancelOrder") /\ HasOrder(req[r].pre, req[r].id)) =>
          Cancelled(req[r])

\* an order that was not cancelled and has line items has been cancelled
C6_Witness ==
    /\ Finished(1, "CancelOrder")
    /\ HasOrder(req[1].pre, req[1].id)
    /\ req[1].pre.orders[req[1].id].status # "cancelled"
    /\ ItemsOf(req[1].pre.order_items, req[1].id) # <<>>
    /\ 200 \in Codes(req[1])

\* the 'return' ledger rows of order o
Returns(rows, o) ==
    {k \in DOMAIN rows : /\ rows[k].transaction_type = "return"
                         /\ rows[k].reference_id = o
                         /\ rows[k].reference_type = "order_cancellation"}

\* the database PlacedDb after one cancellation of its order, and nothing else
\* that touched the stock: the ledger is PlacedDb's plus the order's returns
CancelledOnce(d) ==
    /\ Len(d.products) = NumProducts
    /\ Kept(d.inventory_transactions, PlacedDb.inventory_transactions)
    /\ SameRows(Gained(d.inventory_transactions, PlacedDb.inventory_transactions),
                [p \in 1..NumProducts |->
                   [product_id |-> p, transaction_type |-> "return",
                    quantity |-> PlacedItems[p].quantity, reference_id |-> 1,
                    reference_type |-> "order_cancellation"]])
    /\ \A p \in 1..NumProducts : Stock(d, p) = InitStock

\* C7: cancelling an order that is already cancelled restores each line item's
\* quantity once more and appends one more 'return' row per line item; after
\* the second cancellation of the placed order each product's stock is the
\* stock before the order plus the line's quantity
C7_CancelTwiceRestoresTwice ==
    \A r \in Slots :
       LET rq == req[r]
           pre == rq.pre
           items == ItemsOf(pre.order_items, rq.id)
       IN
       (/\ Finished(r, "CancelOrder")
        /\ HasOrder(pre, rq.id)
        /\ pre.orders[rq.id].status = "cancelled") =>
          /\ 200 \in Codes(rq)
          /\ \A p \in 1..Len(pre.products) :
                Stock(db, p) = Stock(pre, p) + Requested(items, p)
          /\ Cardinality(Returns(db.inventory_transactions, rq.id))
                = Cardinality(Returns(pre.inventory_transactions, rq.id)) + Len(items)
          /\ db.orders[rq.id].status = "cancelled"
          /\ (rq.id = 1 /\ CancelledOnce(pre)) =>
                \A p \in 1..NumProducts :
                   Stock(db, p) = InitStock + PlacedItems[p].quantity

\* the placed order, cancelled once, has been cancelled a second time
C7_Witness ==
    /\ Finished(1, "CancelOrder")
    /\ req[1].id = 1
    /\ HasOrder(req[1].pre, 1)
    /\ req[1].pre.orders[1].status = "cancelled"
    /\ CancelledOnce(req[1].pre)
    /\ 200 \in Codes(req[1])

\* C8: cancelling an order id that matches no order answers 404 (order not
\* found), not success, and changes no stock, ledger or order row
C8_CancelUnknownOrderFails ==
    \A r \in Slots :
       (Finished(r, "CancelOrder") /\ ~HasOrder(req[r].pre, req[r].id)) =>
          /\ Codes(req[r]) = {404}
          /\ db = req[r].pre

\* C9: a cancellation that answers with a failure (a stock-restore write or the
\* status update failed) has left no stock restoration, no 'return' ledger row
\* and no status change behind
C9_CancelOrderAllOrNothing ==
    \A r \in Slots :
       (Finished(r, "CancelOrder") /\ 500 \in Codes(req[r])) => db = req[r].pre

\* C10: once an order's status is 'cancelled' no step changes it to anything else
C10_CancellationTerminal ==
    [][\A o \in 1..Len(db.orders) :
          db.orders[o].status = "cancelled" =>
             (HasOrder(db', o) /\ db'.orders[o].status = "cancelled")]_vars

\* C11: an adjustment_out of more units than the product holds answers 400
\* (insufficient stock), leaves the stock as it was and appends no ledger row
C11_AdjustOutTooMuchRefused ==
    \A r \in Slots :
       LET rq == req[r] IN
       (/\ Finished(r, "AdjustStock")
        /\ rq.value = "adjustment_out"
        /\ HasProduct(rq.pre, rq.id)
        /\ rq.quantity > Stock(rq.pre, rq.id)) =>
          /\ rq.responses = <<Response(400)>>
          /\ Stock(db, rq.id) = Stock(rq.pre, rq.id)
          /\ db.inventory_transactions = rq.pre.inventory_transactions
          /\ db = rq.pre

\* an adjustment_out of 2 units has run against a product holding 1 unit
C11_Witness ==
    /\ Finished(1, "AdjustStock")
    /\ req[1].value = "adjustment_out"
    /\ HasProduct(req[1].pre, req[1].id)
    /\ Stock(req[1].pre, req[1].id) = 1
    /\ req[1].quantity = 2
    /\ ~inTxn

\* what an adjustment that went through has made of the database it found
Adjusted(rq) ==
    [rq.pre EXCEPT
       !.products[rq.id].stock_quantity =
           @ + (IF rq.value = "adjustment_in" THEN Abs(rq.quantity)
                ELSE -Abs(rq.quantity)),
       !.inventory_transactions =
           Append(@, [product_id |-> rq.id, transaction_type |-> rq.value,
                      quantity |-> Abs(rq.quantity), reference_id |-> 0,
                      reference_type |-> ""])]

\* C12: an adjustment_out of exactly the units the product holds answers 200
\* with new_stock 0, sets the stock to 0 and appends one adjustment_out ledger
\* row holding the unsigned quantity
C12_AdjustOutAllSucceeds ==
    \A r \in Slots :
       LET rq == req[r] IN
       (/\ Finished(r, "AdjustStock")
        /\ rq.value = "adjustment_out"
        /\ HasProduct(rq.pre, rq.id)
        /\ rq.quantity > 0
        /\ rq.quantity = Stock(rq.pre, rq.id)) =>
          /\ rq.responses = <<[Response(200) EXCEPT !.new_stock = 0]>>
          /\ Stock(db, rq.id) = 0
          /\ db = Adjusted(rq)
          /\ db.inventory_transactions[Len(db.inventory_transactions)].quantity
                = rq.quantity

\* an adjustment_out of the 2 units a product holds has been answered
C12_Witness ==
    /\ Finished(1, "AdjustStock")
    /\ req[1].value = "adjustment_out"
    /\ HasProduct(req[1].pre, req[1].id)
    /\ Stock(req[1].pre, req[1].id) = 2
    /\ req[1].quantity = 2
    /\ 200 \in Codes(req[1])

\* C13: when an adjustment has finished, either the stock update and exactly one
\* ledger row of it persist and nothing else changed (answer 200), or the
\* database is as the request found it (any other answer), also when the stock
\* UPDATE or the ledger INSERT failed
C13_AdjustStockAtomic ==
    \A r \in Slots :
       LET rq == req[r] IN
       Finished(r, "AdjustStock") =>
          IF rq.responses = <<[Response(200) EXCEPT !.new_stock = rq.stock]>>
          THEN HasProduct(rq.pre, rq.id) /\ db = Adjusted(rq)
          ELSE Len(rq.responses) = 1 /\ 200 \notin Codes(rq) /\ db = rq.pre

\* an adjustment whose stock UPDATE or ledger INSERT failed has been answered 500
C13_Witness ==
    /\ Finished(1, "AdjustStock")
    /\ Codes(req[1]) = {500}
    /\ req[1].stock > 0
    /\ failuresLeft = 0
    /\ ~inTxn

\* the product, quantity and unit price of each order_items row
Snapshot(rows) ==
    [k \in DOMAIN rows |->
       [product_id |-> rows[k].product_id, quantity |-> rows[k].quantity,
        unit_price |-> rows[k].unit_price]]

\* C14: once an order is created, reading it back gives for each line item the
\* quantity and the unit price submitted (0 included), whatever price the
\* product has been given since
C14_PriceSnapshotRoundTrip ==
    LET rq == req[1] IN
    (Finished(1, "CreateOrder") /\ Codes(rq) = {201}) =>
       SameRows(Snapshot(OrderItemsRead(db, db.order_items, rq.orderId)),
                [i \in 1..Len(rq.items) |->
                   [product_id |-> rq.items[i].product_id,
                    quantity |-> rq.items[i].quantity,
                    unit_price |-> rq.items[i].unit_price]])

\* the sum of total_price over the order_items rows of order o
RECURSIVE SumTotalPrice(_, _)
SumTotalPrice(rows, o) ==
    IF rows = <<>> THEN 0
    ELSE (IF Head(rows).order_id = o THEN Head(rows).total_price ELSE 0)
         + SumTotalPrice(Tail(rows), o)

\* C15: for an order that create-order has committed, the sum of its line
\* items' total_price plus tax_amount minus discount_amount is its total_amount
C15_TotalAmountMatchesItems ==
    LET rq == req[1] IN
    (Finished(1, "CreateOrder") /\ Codes(rq) = {201}) =>
       SumTotalPrice(db.order_items, rq.orderId)
          + db.orders[rq.orderId].tax_amount
          - db.orders[rq.orderId].discount_amount
       = db.orders[rq.orderId].total_amount

\* C16: a status update (to any status, 'cancelled' included) and a payment
\* status update leave every product, the ledger, the order_items and every
\* other order row as they were; of the addressed row only the status, or the
\* payment status, changes
C16_StatusUpdateFrame ==
    \A r \in Slots :
       LET rq == req[r] IN
       /\ (Finished(r, "UpdateOrderStatus") /\ HasOrder(rq.pre, rq.id)) =>
             db = [rq.pre EXCEPT !.orders[rq.id].status = rq.value]
       /\ (Finished(r, "UpdatePaymentStatus") /\ HasOrder(rq.pre, rq.id)) =>
             db = [rq.pre EXCEPT !.orders[rq.id].payment_status = rq.value]

\* the placed order, which has line items, has been given the status 'cancelled'
\* by a status update
C16_Witness ==
    /\ Finished(1, "UpdateOrderStatus")
    /\ req[1].value = "cancelled"
    /\ HasOrder(req[1].pre, req[1].id)
    /\ ItemsOf(req[1].pre.order_items, req[1].id) # <<>>
    /\ req[1].pre.orders[req[1].id].status = "pending"
    /\ db.orders[req[1].id].status = "cancelled"

\* C17: a status update and a payment status update on an order id that matches
\* no row answer 404 and change nothing
C17_StatusUpdateUnknownOrder ==
    \A r \in Slots :
       LET rq == req[r] IN
       (/\ Finished(r, "UpdateOrderStatus") \/ Finished(r, "UpdatePaymentStatus")
        /\ rq.id > Len(rq.pre.orders)) =>
          /\ rq.responses = <<Response(404)>>
          /\ db = rq.pre

\* a payment status update on an order id beyond the orders has been answered
C17_Witness ==
    /\ Finished(1, "UpdatePaymentStatus")
    /\ req[1].id > Len(req[1].pre.orders)
    /\ req[1].responses # <<>>

\* C18: when a product edit that holds a new stock_quantity has finished, either
\* the stock is the new value and the ledger gained exactly one adjustment_in /
\* adjustment_out row holding the absolute difference to the value replaced, or
\* neither the stock nor the ledger changed
C18_ProductEditLogged ==
    \A r \in Slots :
       LET rq == req[r]
           old == Stock(rq.pre, rq.id)
       IN
       (/\ Finished(r, "UpdateProduct")
        /\ rq.quantity # NoValue
        /\ HasProduct(rq.pre, rq.id)
        /\ rq.quantity # old) =>
          \/ db = rq.pre
          \/ db = [rq.pre EXCEPT
                     !.products[rq.id].stock_quantity = rq.quantity,
                     !.inventory_transactions =
                         Append(@, [product_id |-> rq.id,
                                    transaction_type |->
                                        IF rq.quantity > old THEN "adjustment_in"
                                        ELSE "adjustment_out",
                                    quantity |-> Abs(rq.quantity - old),
                                    reference_id |-> 0, reference_type |-> ""])]

\* C19: once the requests have run, the product of every order_items row exists,
\* also when a product deletion and a create-order for that product were in
\* flight together
C19_ReferencedProductKept ==
    Quiet => \A k \in DOMAIN db.order_items :
                HasProduct(db, db.order_items[k].product_id)

\* the ledger rows that are committed: inside a transaction, those held at BEGIN
CommittedLedger ==
    IF inTxn THEN saved.inventory_transactions ELSE db.inventory_transactions

\* C20: no step updates or deletes a committed ledger row: the committed ledger
\* after a step starts with the committed ledger before it
C20_LedgerAppendOnly ==
    [][Kept(CommittedLedger', CommittedLedger)]_vars

\* a product has been deleted and its ledger rows are still there, after an
\* earlier request appended to the ledger
C20_Witness ==
    /\ Finished(1, "DeleteProduct")
    /\ Codes(req[1]) = {200}
    /\ ~HasProduct(db, req[1].id)
    /\ \E k \in DOMAIN db.inventory_transactions :
          db.inventory_transactions[k].product_id = req[1].id
    /\ Len(db.inventory_transactions) > NumProducts

\* the response a request must give when what it names is missing (404) or what
\* it asks for is refused (400), for a storage that fails no statement
Refused(rq) ==
    LET pre == rq.pre IN
    CASE rq.kind = "CreateOrder" ->
            IF \E i \in 1..Len(rq.items) : ~HasProduct(pre, rq.items[i].product_id)
            THEN IF \A i \in 1..Len(rq.items) : ~HasProduct(pre, rq.items[i].product_id)
                 THEN {404} ELSE {404, 400}
            ELSE IF \E i \in 1..Len(rq.items) :
                       InsufficientStock(Stock(pre, rq.items[i].product_id),
                                         rq.items[i].quantity)
            THEN {400} ELSE {}
      [] rq.kind = "AdjustStock" ->
            IF ~HasProduct(pre, rq.id) THEN {404}
            ELSE IF NegativeStock(NewStock(Stock(pre, rq.id),
                                           AdjustmentQuantity(rq.value, rq.quantity)))
            THEN {400} ELSE {}
      [] rq.kind \in {"UpdateOrderStatus", "UpdatePaymentStatus", "CancelOrder"} ->
            IF ~HasOrder(pre, rq.id) THEN {404} ELSE {}
      [] OTHER -> {}

\* C22: failure kinds map to status codes uniformly: a missing product (create
\* order, adjust stock) or a missing order (status update, payment update,
\* cancel) is answered 404, and a validation or insufficient-stock failure 400
C22_FailureCodesUniform ==
    \A r \in Slots :
       (Free(r) /\ Refused(req[r]) # {}) =>
          /\ Codes(req[r]) # {}
          /\ Codes(req[r]) \subseteq Refused(req[r])

\* C24: in every reachable state every committed order's status is one of the
\* five values and its payment_status one of the four, whatever the bodies of
\* create order, status update and payment update held
C24_StatusValuesValid ==
    ~inTxn =>
       \A o \in 1..Len(db.orders) :
          /\ db.orders[o].status \in OrderStatuses
          /\ db.orders[o].payment_status \in PaymentStatuses

\* the operations on orders and on stock
OrderOperations ==
    {"CreateOrder", "CancelOrder", "UpdateOrderStatus", "UpdatePaymentStatus",
     "AdjustStock"}

\* the call s is bounded: its timer is armed, or its request was told 408
Bounded(s) ==
    \/ Statement(s.slot, "Timer", 0) \in pending
    \/ 408 \in Codes(req[s.slot])

\* C23: every database call of an order or stock-adjustment operation is bounded
\* by a timeout: while the call is outstanding either its timer is armed or the
\* operation has failed with 408
C23_OrderCallsBounded ==
    \A s \in pending : req[s.slot].kind \in OrderOperations => Bounded(s)

\* the response that goes with each way the promise of queryWithTimeout settles
SettledCode(how) ==
    CASE how = "result" -> 200
      [] how = "error" -> 500
      [] how = "timeout" -> 408
      [] OTHER -> 0

\* C30: queryWithTimeout settles its promise exactly once, with the result or
\* error of the statement when its callback comes first and with a timeout
\* error otherwise; and a write reported as timed out (408) leaves the database
\* as the request found it
C30_TimedOutWriteUnchanged ==
    \A r \in Slots :
       Finished(r, "UpdateProfile") =>
          /\ req[r].settled # ""
          /\ req[r].responses = <<Response(SettledCode(req[r].settled))>>
          /\ req[r].settled = "timeout" => db = req[r].pre

\* the operations C27 names
AnsweredOnce == {"CreateOrder", "CancelOrder", "InventorySummary", "DashboardOverview"}

\* C27: every create order, cancel order, inventory summary and dashboard
\* overview request is sent one and only one response, also when two or more of
\* its database calls fail: never more than one, and one when its calls have run
C27_ExactlyOneResponse ==
    \A r \in Slots :
       req[r].kind \in AnsweredOnce =>
          /\ Len(req[r].responses) <= 1
          /\ Free(r) => Len(req[r].responses) = 1

\* the ledger rows an operation that succeeds must have written
LedgerRowsDue(rq) ==
    CASE rq.kind \in {"CreateOrder", "CancelOrder"} -> Len(rq.items)
      [] rq.kind = "CreateProduct" -> 1
      [] rq.kind = "UpdateProduct" ->
            IF rq.quantity # NoValue /\ rq.quantity # rq.stock THEN 1 ELSE 0
      [] OTHER -> 0

\* C28: when create order, cancel order, product creation or a stock-changing
\* product edit has answered with success and its statements have run, the
\* sale, return, initial_stock or adjustment rows it owes are in the committed
\* ledger (so a ledger insert that fails makes the operation fail)
C28_SuccessHasLedgerRows ==
    \A r \in Slots :
       (/\ Free(r)
        /\ req[r].kind \in {"CreateOrder", "CancelOrder", "CreateProduct", "UpdateProduct"}
        /\ Codes(req[r]) \cap {200, 201} # {}) =>
          Len(Gained(CommittedLedger, req[r].pre.inventory_transactions))
             = LedgerRowsDue(req[r])

\* the operations that open a transaction
TransactionOperations == {"CreateOrder", "CancelOrder", "AdjustStock"}

\* the request of slot r has issued BEGIN TRANSACTION
Begun(r) == req[r].kind \in TransactionOperations

\* the request of slot r has issued COMMIT or ROLLBACK and sent a response
Closed(r) == req[r].closing # {} /\ req[r].responses # <<>>

\* the statements of the line items of the request of slot r that are yet to run
ItemWork(r) ==
    {s \in pending : s.slot = r /\ s.op \in {"GetProduct", "InsertItem", "UpdateStock"}}

\* C29: when every statement is eventually run and its callback called, every
\* CreateOrder, CancelOrder and AdjustStock request that issued BEGIN TRANSACTION
\* eventually has issued COMMIT or ROLLBACK and sent a response (unless the
\* process has ended, after which no callback is called); no request issues
\* both COMMIT and ROLLBACK; and a CreateOrder that issued COMMIT has counted the
\* stock UPDATE of every line item, has none of them left to run, and none of
\* its callbacks was called with an error
C29_TransactionClosure ==
    /\ \A r \in Slots : Begun(r) ~> (Closed(r) \/ Exited)
    /\ [](\A r \in Slots : ~({"COMMIT", "ROLLBACK"} \subseteq req[r].closing))
    /\ [](\A r \in Slots :
            req[r].kind = "CreateOrder" /\ "COMMIT" \in req[r].closing
            => /\ ~req[r].failed
               /\ req[r].itemsProcessed = Len(req[r].items)
               /\ ItemWork(r) = {})

\* a CreateOrder of two line items, one of whose statements failed, has issued
\* ROLLBACK and answered, and all its statements have run
C29_Witness ==
    \E r \in Slots :
        /\ Finished(r, "CreateOrder")
        /\ Len(req[r].items) = 2
        /\ req[r].failed
        /\ req[r].closing = {"ROLLBACK"}
        /\ req[r].responses # <<>>
        /\ ~Exited

\* the request of slot r was answered once, with `code`
Answered(r, code) == Codes(req[r]) = {code} /\ Len(req[r].responses) = 1

\* the request of slot r reported success
Succeeded(r) ==
    \/ req[r].kind = "CreateOrder" /\ Answered(r, 201)
    \/ req[r].kind \in {"AdjustStock", "UpdateOrderStatus"} /\ Answered(r, 200)

\* the writes of the successful request of slot r are in the tables d
WritesKept(d, r) ==
    LET rq == req[r] IN
    CASE rq.kind = "CreateOrder" ->
           /\ HasOrder(d, rq.orderId)
           /\ ItemsOf(d.order_items, rq.orderId)
                = [k \in DOMAIN rq.items |->
                     [product_id |-> rq.items[k].product_id,
                      quantity |-> rq.items[k].quantity]]
      [] rq.kind = "AdjustStock" ->
           Count(d.inventory_transactions, AdjustRow(rq.id, rq.value, rq.quantity))
             >= Cardinality({u \in Slots : /\ Succeeded(u)
                                           /\ req[u].kind = "AdjustStock"
                                           /\ req[u].id = rq.id
                                           /\ req[u].value = rq.value
                                           /\ Abs(req[u].quantity) = Abs(rq.quantity)})
      [] rq.kind = "UpdateOrderStatus" ->
           HasOrder(d, rq.id) /\ d.orders[rq.id].status = rq.value
      [] OTHER -> TRUE

\* the request of slot r created an order header and was refused
RefusedOrder(r) ==
    /\ req[r].kind = "CreateOrder"
    /\ req[r].orderId > 0
    /\ "ROLLBACK" \in req[r].closing
    /\ \A u \in Slots \ {r} : req[u].orderId # req[r].orderId

\* C21: two order, adjustment or status requests were in flight together on the
\* connection and all their statements have run.  A request that reported
\* success finds its writes in the database (no ROLLBACK of the other request
\* discarded them), and the order header of a refused order is not in the
\* database (no COMMIT of the other request made it durable)
C21_OwnTransaction ==
    (Quiet /\ ~inTxn /\ ~Exited /\ \A r \in Slots : req[r].kind # "none")
    => \A r \in Slots :
         /\ Succeeded(r) => WritesKept(db, r)
         /\ RefusedOrder(r) => ~HasOrder(db, req[r].orderId)

\* the requests of both slots are orders of one line item for product p, each
\* quantity within the stock s and their sum beyond it
CompetingOrders(p, s) ==
    /\ \A r \in Slots :
         /\ req[r].kind = "CreateOrder"
         /\ Len(req[r].items) = 1
         /\ req[r].items[1].product_id = p
         /\ req[r].items[1].quantity <= s
    /\ req[1].items[1].quantity + req[2].items[1].quantity > s

Delta(r, p) ==
    LET rq == req[r] IN
    CASE rq.kind = "AdjustStock" /\ rq.id = p -> AdjustmentQuantity(rq.value, rq.quantity)
      [] rq.kind = "CreateOrder" /\ Len(rq.items) = 1 /\ rq.items[1].product_id = p ->
           -rq.items[1].quantity
      [] OTHER -> 0

====
